---- MODULE Spec2Model ----
(* Model of the interest-rate swap analyzer: the InterestRate value type,     *)
(* Party, InterestRateSwap (swaps.py) and InterestRateSwapAnalyzer            *)
(* (interest_rate_swap_analyzer/analyzer.py, with the eagerly computed        *)
(* analyzer of swaps.py beside it).                                           *)
(*                                                                            *)
(* Rates are exact integers counted in basis points (1 bp = 0.01% = 0.0001):  *)
(* the program's floats are modelled by the numbers they approximate.         *)
EXTENDS Integers, FiniteSets, Sequences, TLC

VARIABLES
    parties,      \* Party objects by handle: their two market quotes
    swap,         \* the InterestRateSwap object
    args,         \* the arguments handed to InterestRateSwapAnalyzer(...)
    analyzer,     \* the InterestRateSwapAnalyzer instance (its __dict__)
    result,       \* outcome of the last call made on the analyzer
    analyze_calls, \* number of analyze() calls made so far
    first_summary, \* outcome of the first analyze() call
    operands,     \* the two operands of the last InterestRate operator call
    rate_result   \* outcome of the last InterestRate operator call

vars == <<parties, swap, args, analyzer, result, analyze_calls, first_summary,
          operands, rate_result>>

-----------------------------------------------------------------------------
(* Bounds of the model                                                        *)

\* market quotes of the small scenarios are drawn from 0..MaxQuote
MaxQuote == 1
\* operand values of the InterestRate operators are drawn from -MaxRate..MaxRate
MaxRate == 1
\* analyze() is called at most MaxCalls times on one analyzer
MaxCalls == 2

-----------------------------------------------------------------------------
(* Shipped defaults (test_default_values.py), in basis points                 *)

a_fixed == 1045
a_float_delta == 75
b_fixed == 965
b_float_delta == 25
swap_fixed_rate == 960
swap_floating_rate == 10

-----------------------------------------------------------------------------
(* Python values and call outcomes                                            *)

None == "None"

\* a plain number (int, float)
Num(n) == [tag |-> "num", rate |-> n, rate_type |-> "num"]

\* InterestRate.__init__
InterestRate(rate, rate_type) ==
    [tag |-> "InterestRate", rate |-> rate, rate_type |-> rate_type]

\* a value that is neither a number nor an InterestRate (None, a string, ...)
OtherValue == [tag |-> "other", rate |-> 0, rate_type |-> "other"]

\* a Python bool
Bool(b) == [tag |-> "bool", truth |-> b]

\* a call that returns v
Return(v) == [status |-> "ok", val |-> v]

\* a call that raises an exception of class e
Raise(e) == [status |-> e, val |-> OtherValue]

-----------------------------------------------------------------------------
(* class InterestRate                                                         *)

InterestRate_add(self, other) ==
    IF other.tag = "num"
    THEN Return(InterestRate(self.rate + other.rate, self.rate_type))
    ELSE IF other.tag = "InterestRate"
    THEN IF self.rate_type = "floating" \/ other.rate_type = "floating"
         THEN Return(InterestRate(self.rate + other.rate, "floating"))
         ELSE Return(InterestRate(self.rate + other.rate, "fixed"))
    ELSE Raise("TypeError")

\* InterestRate_sub, were a same-kind difference to keep the operands' kind
InterestRate_sub_keep_kind(self, other) ==
    IF other.tag = "num"
    THEN Return(InterestRate(self.rate - other.rate, self.rate_type))
    ELSE IF other.tag = "InterestRate"
    THEN IF self.rate_type # other.rate_type
         THEN Return(InterestRate(self.rate - other.rate, "floating"))
         ELSE Return(InterestRate(self.rate - other.rate, self.rate_type))
    ELSE Raise("TypeError")

InterestRate_sub(self, other) ==
    IF other.tag = "num"
    THEN Return(InterestRate(self.rate - other.rate, self.rate_type))
    ELSE IF other.tag = "InterestRate"
    THEN IF self.rate_type # other.rate_type
         THEN Return(InterestRate(self.rate - other.rate, "floating"))
         ELSE Return(InterestRate(self.rate - other.rate, "fixed"))
    ELSE Raise("TypeError")

InterestRate_lt(self, other) ==
    IF other.tag = "num"
    THEN Return(Bool(self.rate < other.rate))
    ELSE IF other.tag = "InterestRate"
    THEN IF self.rate_type # other.rate_type
         THEN Raise("ValueError")
         ELSE Return(Bool(self.rate < other.rate))
    ELSE Raise("TypeError")

InterestRate_le(self, other) ==
    IF other.tag = "num"
    THEN Return(Bool(self.rate <= other.rate))
    ELSE IF other.tag = "InterestRate"
    THEN IF self.rate_type # other.rate_type
         THEN Raise("ValueError")
         ELSE Return(Bool(self.rate <= other.rate))
    ELSE Raise("TypeError")

\* InterestRate_eq, were rates of different kinds to compare unequal
InterestRate_eq_across_kinds(self, other) ==
    IF other.tag = "num"
    THEN Return(Bool(self.rate = other.rate))
    ELSE IF other.tag = "InterestRate"
    THEN IF self.rate_type # other.rate_type
         THEN Return(Bool(FALSE))
         ELSE Return(Bool(self.rate = other.rate))
    ELSE Raise("TypeError")

InterestRate_eq(self, other) ==
    IF other.tag = "num"
    THEN Return(Bool(self.rate = other.rate))
    ELSE IF other.tag = "InterestRate"
    THEN IF self.rate_type # other.rate_type
         THEN Raise("ValueError")
         ELSE Return(Bool(self.rate = other.rate))
    ELSE Raise("TypeError")

InterestRate_ne(self, other) ==
    IF other.tag = "num"
    THEN Return(Bool(self.rate # other.rate))
    ELSE IF other.tag = "InterestRate"
    THEN IF self.rate_type # other.rate_type
         THEN Raise("ValueError")
         ELSE Return(Bool(self.rate # other.rate))
    ELSE Raise("TypeError")

InterestRate_gt(self, other) ==
    IF other.tag = "num"
    THEN Return(Bool(self.rate > other.rate))
    ELSE IF other.tag = "InterestRate"
    THEN IF self.rate_type # other.rate_type
         THEN Raise("ValueError")
         ELSE Return(Bool(self.rate > other.rate))
    ELSE Raise("TypeError")

InterestRate_ge(self, other) ==
    IF other.tag = "num"
    THEN Return(Bool(self.rate >= other.rate))
    ELSE IF other.tag = "InterestRate"
    THEN IF self.rate_type # other.rate_type
         THEN Raise("ValueError")
         ELSE Return(Bool(self.rate >= other.rate))
    ELSE Raise("TypeError")

\* number + value with a plain number on the left: float.__add__ handles only
\* numbers, and InterestRate defines no __radd__ to fall back on
float_add(number, other) ==
    IF other.tag = "num"
    THEN Return(Num(number.rate + other.rate))
    ELSE Raise("TypeError")

\* number - value with a plain number on the left (InterestRate has no __rsub__)
float_sub(number, other) ==
    IF other.tag = "num"
    THEN Return(Num(number.rate - other.rate))
    ELSE Raise("TypeError")

-----------------------------------------------------------------------------
(* class Party                                                                *)

PartyIds == {"A", "B", "C"}

\* Party.__init__: the two quotes become InterestRate objects
Party(fixed_rate, floating_rate_delta) ==
    [fixed_rate |-> InterestRate(fixed_rate, "fixed"),
     floating_rate_delta |-> InterestRate(floating_rate_delta, "floating")]

Party_get_rate(party, type) ==
    IF type = "fixed"
    THEN parties[party].fixed_rate
    ELSE parties[party].floating_rate_delta

-----------------------------------------------------------------------------
(* class InterestRateSwap                                                     *)

InterestRateSwap(fixed_rate, floating_rate_delta, fixed_rate_payer, floating_rate_payer) ==
    [fixed_rate |-> InterestRate(fixed_rate, "fixed"),
     floating_rate_delta |-> InterestRate(floating_rate_delta, "floating"),
     fixed_rate_payer |-> fixed_rate_payer,
     floating_rate_payer |-> floating_rate_payer]

get_paying_position_for_party(party) ==
    IF party = swap.fixed_rate_payer THEN "fixed" ELSE "floating"

\* get_receiving_position_for_party, were parties compared by their quotes
get_receiving_position_for_party_by_quotes(party) ==
    IF parties[party] = parties[swap.fixed_rate_payer] THEN "floating"
    ELSE IF parties[party] = parties[swap.floating_rate_payer] THEN "fixed"
    ELSE None

get_receiving_position_for_party(party) ==
    IF party = swap.fixed_rate_payer THEN "floating"
    ELSE IF party = swap.floating_rate_payer THEN "fixed"
    ELSE None

Swap_get_rate(type) ==
    IF type = "fixed" THEN swap.fixed_rate ELSE swap.floating_rate_delta

-----------------------------------------------------------------------------
(* class InterestRateSwapAnalyzer (analyzer.py): the lazily cached engine.    *)
(* A method is an operator from the instance to [self, out]: the instance    *)
(* after the call (cached_property stores into it) and the call's outcome.    *)

\* a cached_property that has not been read yet
NotCached == [cached |-> FALSE, val |-> [party \in {} |-> 0]]

Cached(v) == [cached |-> TRUE, val |-> v]

\* the instance __init__ leaves behind
NewAnalyzer(party_a, party_b, interest_rate_swap) ==
    [exists |-> TRUE,
     party_a |-> party_a,
     party_b |-> party_b,
     interest_rate_swap |-> interest_rate_swap,
     comparatives |-> NotCached,
     comparative_advantages |-> NotCached,
     comparative_disadvantages |-> NotCached]

\* no instance: before construction, or after __init__ raised
NoAnalyzer ==
    [exists |-> FALSE,
     party_a |-> None,
     party_b |-> None,
     interest_rate_swap |-> None,
     comparatives |-> NotCached,
     comparative_advantages |-> NotCached,
     comparative_disadvantages |-> NotCached]

\* Analyzer_init, were only the two parties required
Analyzer_init_parties_only(party_a, party_b, interest_rate_swap) ==
    IF party_a = None \/ party_b = None
    THEN [self |-> NoAnalyzer, out |-> Raise("ValueError")]
    ELSE [self |-> NewAnalyzer(party_a, party_b, interest_rate_swap),
          out |-> Return(OtherValue)]

Analyzer_init(party_a, party_b, interest_rate_swap) ==
    IF party_a = None \/ party_b = None \/ interest_rate_swap = None
    THEN [self |-> NoAnalyzer, out |-> Raise("ValueError")]
    ELSE [self |-> NewAnalyzer(party_a, party_b, interest_rate_swap),
          out |-> Return(OtherValue)]

\* the keys of the three cached maps: [self.party_a, self.party_b]
PartyKeys(self) == {self.party_a, self.party_b}

\* comparatives_for_party, were the differences taken the other way round
comparatives_for_party_reversed(self, party) ==
    LET counterparty == IF party = self.party_a THEN self.party_b ELSE self.party_a
        fixed_rate_difference ==
            InterestRate_sub(parties[counterparty].fixed_rate,
                             parties[party].fixed_rate).val
        floating_rate_difference ==
            InterestRate_sub(parties[counterparty].floating_rate_delta,
                             parties[party].floating_rate_delta).val
    IN  [fixed |-> fixed_rate_difference.rate,
         floating |-> floating_rate_difference.rate]

\* comparatives_for_party, were the counterparty always party_b
comparatives_for_party_against_party_b(self, party) ==
    LET counterparty == self.party_b
        fixed_rate_difference ==
            InterestRate_sub(parties[party].fixed_rate,
                             parties[counterparty].fixed_rate).val
        floating_rate_difference ==
            InterestRate_sub(parties[party].floating_rate_delta,
                             parties[counterparty].floating_rate_delta).val
    IN  [fixed |-> fixed_rate_difference.rate,
         floating |-> floating_rate_difference.rate]

comparatives_for_party(self, party) ==
    LET counterparty == IF party = self.party_a THEN self.party_b ELSE self.party_a
        fixed_rate_difference ==
            InterestRate_sub(parties[party].fixed_rate,
                             parties[counterparty].fixed_rate).val
        floating_rate_difference ==
            InterestRate_sub(parties[party].floating_rate_delta,
                             parties[counterparty].floating_rate_delta).val
    IN  [fixed |-> fixed_rate_difference.rate,
         floating |-> floating_rate_difference.rate]

\* cached_property comparatives
comparatives(self) ==
    IF self.comparatives.cached
    THEN self
    ELSE [self EXCEPT !.comparatives =
             Cached([party \in PartyKeys(self) |-> comparatives_for_party(self, party)])]

\* the branch of determine_comparative_advantage_for_party on one party's
\* comparatives c
\* smaller_differential, were a tie to go to the fixed market
smaller_differential_tie_fixed(c) ==
    IF c.fixed <= c.floating
    THEN [type |-> "fixed", rate |-> c.fixed]
    ELSE IF c.floating < c.fixed
    THEN [type |-> "floating", rate |-> c.floating]
    ELSE [type |-> "none", rate |-> 0]

\* smaller_differential, were it to name the market of the larger differential
smaller_differential_names_larger(c) ==
    IF c.fixed > c.floating
    THEN [type |-> "fixed", rate |-> c.fixed]
    ELSE IF c.floating > c.fixed
    THEN [type |-> "floating", rate |-> c.floating]
    ELSE [type |-> "none", rate |-> 0]

smaller_differential(c) ==
    IF c.fixed < c.floating
    THEN [type |-> "fixed", rate |-> c.fixed]
    ELSE IF c.floating < c.fixed
    THEN [type |-> "floating", rate |-> c.floating]
    ELSE [type |-> "none", rate |-> 0]

\* the branch of determine_comparative_disadvantage_for_party
\* larger_differential, were its comparisons left as in the advantage method
larger_differential_not_flipped(c) ==
    IF c.fixed < c.floating
    THEN [type |-> "fixed", rate |-> c.fixed]
    ELSE IF c.floating < c.fixed
    THEN [type |-> "floating", rate |-> c.floating]
    ELSE [type |-> "none", rate |-> 0]

larger_differential(c) ==
    IF c.fixed > c.floating
    THEN [type |-> "fixed", rate |-> c.fixed]
    ELSE IF c.floating > c.fixed
    THEN [type |-> "floating", rate |-> c.floating]
    ELSE [type |-> "none", rate |-> 0]

\* self.comparatives[party] once s1 holds the map: a KeyError for a party
\* that is not a key
advantage_lookup(s1, party) ==
    [self |-> s1,
     out |-> IF party \notin DOMAIN s1.comparatives.val
             THEN Raise("KeyError")
             ELSE Return(smaller_differential(s1.comparatives.val[party]))]

disadvantage_lookup(s1, party) ==
    [self |-> s1,
     out |-> IF party \notin DOMAIN s1.comparatives.val
             THEN Raise("KeyError")
             ELSE Return(larger_differential(s1.comparatives.val[party]))]

determine_comparative_advantage_for_party(self, party) ==
    advantage_lookup(comparatives(self), party)

determine_comparative_disadvantage_for_party(self, party) ==
    disadvantage_lookup(comparatives(self), party)

\* the dict comprehension of comparative_advantages
advantages_map(s1) ==
    [s1 EXCEPT !.comparative_advantages =
        Cached([party \in PartyKeys(s1) |->
            determine_comparative_advantage_for_party(s1, party).out.val])]

\* the dict comprehension of comparative_disadvantages
disadvantages_map(s1) ==
    [s1 EXCEPT !.comparative_disadvantages =
        Cached([party \in PartyKeys(s1) |->
            determine_comparative_disadvantage_for_party(s1, party).out.val])]

\* comparative_advantages, were it to pick up the other cached map
comparative_advantages_wrong_slot(self) ==
    IF self.comparative_advantages.cached
    THEN self
    ELSE IF self.comparative_disadvantages.cached
    THEN [self EXCEPT !.comparative_advantages = self.comparative_disadvantages]
    ELSE advantages_map(comparatives(self))

\* cached_property comparative_advantages
comparative_advantages(self) ==
    IF self.comparative_advantages.cached
    THEN self
    ELSE advantages_map(comparatives(self))

\* cached_property comparative_disadvantages
comparative_disadvantages(self) ==
    IF self.comparative_disadvantages.cached
    THEN self
    ELSE disadvantages_map(comparatives(self))

\* the except clause of get_net_benefit: any exception becomes a ValueError
net_benefit_except(out) ==
    IF out.status = "ok" THEN out ELSE Raise("ValueError")

\* net_benefit_try, were the subtraction swap rate - market rate
net_benefit_try_reversed(s1, party) ==
    [self |-> s1,
     out |-> net_benefit_except(
         IF party \notin DOMAIN s1.comparative_advantages.val
         THEN Raise("KeyError")
         ELSE InterestRate_sub(
                  Swap_get_rate(get_receiving_position_for_party(party)),
                  Party_get_rate(party, s1.comparative_advantages.val[party].type)))]

\* the try body of get_net_benefit once s1 holds comparative_advantages
net_benefit_try(s1, party) ==
    [self |-> s1,
     out |-> net_benefit_except(
         IF party \notin DOMAIN s1.comparative_advantages.val
         THEN Raise("KeyError")
         ELSE InterestRate_sub(
                  Party_get_rate(party, s1.comparative_advantages.val[party].type),
                  Swap_get_rate(get_receiving_position_for_party(party))))]

get_net_benefit(self, party) ==
    net_benefit_try(comparative_advantages(self), party)

\* the absolute value of a number
Magnitude(n) == IF n < 0 THEN -n ELSE n

\* total_arbitrage_sum, were it to add the magnitudes of the two rates
total_arbitrage_sum_magnitudes(s1) ==
    [self |-> s1,
     out |-> Return(Num(Magnitude(s1.comparative_advantages.val[s1.party_a].rate)
                        + Magnitude(s1.comparative_advantages.val[s1.party_b].rate)))]

\* total_arbitrage_sum, were it to add party_a's rate twice
total_arbitrage_sum_party_a_twice(s1) ==
    [self |-> s1,
     out |-> Return(Num(s1.comparative_advantages.val[s1.party_a].rate
                        + s1.comparative_advantages.val[s1.party_a].rate))]

\* total_arbitrage_sum, were party_b's rate subtracted
total_arbitrage_sum_difference(s1) ==
    [self |-> s1,
     out |-> Return(Num(s1.comparative_advantages.val[s1.party_a].rate
                        - s1.comparative_advantages.val[s1.party_b].rate))]

\* the sum of calculate_total_arbitrage_available once s1 holds the map
total_arbitrage_sum(s1) ==
    [self |-> s1,
     out |-> Return(Num(s1.comparative_advantages.val[s1.party_a].rate
                        + s1.comparative_advantages.val[s1.party_b].rate))]

calculate_total_arbitrage_available(self) ==
    total_arbitrage_sum(comparative_advantages(self))

\* swap paying rate (a plain number) + net benefit, given get_net_benefit's
\* outcome; a raised exception is logged and re-raised
paying_plus_benefit(benefit, party) ==
    [self |-> benefit.self,
     out |-> IF benefit.out.status # "ok"
             THEN benefit.out
             ELSE float_add(Num(Swap_get_rate(get_paying_position_for_party(party)).rate),
                            benefit.out.val)]

calculate_total_cost(self, party) ==
    paying_plus_benefit(get_net_benefit(self, party), party)

\* market rate (a plain number) - (paying rate + net benefit)
market_minus_cost(market, cost) ==
    [self |-> cost.self,
     out |-> IF cost.out.status # "ok"
             THEN cost.out
             ELSE float_sub(Num(market), cost.out.val)]

\* the try body of _calculate_market_improvement once s1 holds
\* comparative_disadvantages
market_improvement_try(s1, party) ==
    IF party \notin DOMAIN s1.comparative_disadvantages.val
    THEN [self |-> s1, out |-> Raise("KeyError")]
    ELSE market_minus_cost(
             Party_get_rate(party, s1.comparative_disadvantages.val[party].type).rate,
             paying_plus_benefit(get_net_benefit(s1, party), party))

calculate_market_improvement(self, party) ==
    market_improvement_try(comparative_disadvantages(self), party)

\* SwapAnalysisResult(...)
SwapAnalysisResult(party, net_benefit, market_improvement, total_cost) ==
    [self |-> total_cost.self,
     out |-> IF total_cost.out.status # "ok"
             THEN total_cost.out
             ELSE Return(
                 [party |-> party,
                  comparative_advantage |->
                      total_cost.self.comparative_advantages.val[party],
                  net_benefit |-> net_benefit.out.val,
                  paying_position |-> get_paying_position_for_party(party),
                  receiving_position |-> get_receiving_position_for_party(party),
                  market_improvement |-> market_improvement.out.val,
                  total_cost |-> total_cost.out.val])]

\* _analyze_party after market_improvement was computed
analyze_party_cost(party, net_benefit, market_improvement) ==
    IF market_improvement.out.status # "ok"
    THEN market_improvement
    ELSE SwapAnalysisResult(party, net_benefit, market_improvement,
                            calculate_total_cost(market_improvement.self, party))

\* _analyze_party after net_benefit was computed
analyze_party_improvement(party, net_benefit) ==
    IF net_benefit.out.status # "ok"
    THEN net_benefit
    ELSE analyze_party_cost(party, net_benefit,
                            calculate_market_improvement(net_benefit.self, party))

analyze_party(self, party) ==
    analyze_party_improvement(party, get_net_benefit(self, party))

\* SwapSummary(...)
SwapSummary(total, party_a_analysis, party_b_analysis) ==
    [self |-> total.self,
     out |-> Return(
         [total_arbitrage |-> total.out.val,
          fixed_rate |-> swap.fixed_rate.rate,
          floating_rate |-> swap.floating_rate_delta.rate,
          party_a_analysis |-> party_a_analysis.out.val,
          party_b_analysis |-> party_b_analysis.out.val])]

\* analyze after party_b_analysis was computed
analyze_summary(party_a_analysis, party_b_analysis) ==
    IF party_b_analysis.out.status # "ok"
    THEN party_b_analysis
    ELSE SwapSummary(calculate_total_arbitrage_available(party_b_analysis.self),
                     party_a_analysis, party_b_analysis)

\* analyze after party_a_analysis was computed
analyze_party_b(party_a_analysis) ==
    IF party_a_analysis.out.status # "ok"
    THEN party_a_analysis
    ELSE analyze_summary(party_a_analysis,
                         analyze_party(party_a_analysis.self, party_a_analysis.self.party_b))

analyze(self) ==
    analyze_party_b(analyze_party(self, self.party_a))

-----------------------------------------------------------------------------
(* class InterestRateSwapAnalyzer (swaps.py): the eagerly computed engine,    *)
(* whose __init__ fills the three maps.                                       *)

Eager_comparatives_for_party(self, party) ==
    LET counterparty == IF party = self.party_a THEN self.party_b ELSE self.party_a
        fixed_rate_difference ==
            InterestRate_sub(parties[party].fixed_rate,
                             parties[counterparty].fixed_rate).val
        floating_rate_difference ==
            InterestRate_sub(parties[party].floating_rate_delta,
                             parties[counterparty].floating_rate_delta).val
    IN  [fixed |-> fixed_rate_difference.rate,
         floating |-> floating_rate_difference.rate]

Eager_determine_comparative_advantage_for_party(self, party) ==
    IF self.comparatives[party].fixed < self.comparatives[party].floating
    THEN [type |-> "fixed", rate |-> self.comparatives[party].fixed]
    ELSE IF self.comparatives[party].floating < self.comparatives[party].fixed
    THEN [type |-> "floating", rate |-> self.comparatives[party].floating]
    ELSE [type |-> "none", rate |-> 0]

Eager_determine_comparative_disadvantage_for_party(self, party) ==
    IF self.comparatives[party].fixed > self.comparatives[party].floating
    THEN [type |-> "fixed", rate |-> self.comparatives[party].fixed]
    ELSE IF self.comparatives[party].floating > self.comparatives[party].fixed
    THEN [type |-> "floating", rate |-> self.comparatives[party].floating]
    ELSE [type |-> "none", rate |-> 0]

\* __init__ after self.comparatives was assigned
Eager_init_advantages(self) ==
    [party_a |-> self.party_a, party_b |-> self.party_b,
     interest_rate_swap |-> self.interest_rate_swap,
     comparatives |-> self.comparatives,
     comparative_advantages |->
         [party \in {self.party_a, self.party_b} |->
             Eager_determine_comparative_advantage_for_party(self, party)],
     comparative_disadvantages |->
         [party \in {self.party_a, self.party_b} |->
             Eager_determine_comparative_disadvantage_for_party(self, party)]]

\* __init__ after the three inputs were assigned
Eager_init_comparatives(self) ==
    Eager_init_advantages(
        [party_a |-> self.party_a, party_b |-> self.party_b,
         interest_rate_swap |-> self.interest_rate_swap,
         comparatives |->
             [party \in {self.party_a, self.party_b} |->
                 Eager_comparatives_for_party(self, party)]])

Eager_init(party_a, party_b, interest_rate_swap) ==
    Eager_init_comparatives(
        [party_a |-> party_a, party_b |-> party_b,
         interest_rate_swap |-> interest_rate_swap])

Eager_calculate_total_arbitrage_available(self) ==
    self.comparative_advantages[self.party_a].rate
        + self.comparative_advantages[self.party_b].rate

-----------------------------------------------------------------------------
(* The advisor OpportunityAnalyzer(party_a, party_b) and its                  *)
(* find_fixed_rate_payer(), which test_default_values.py imports and calls;   *)
(* analyzer.py does not define it, so it follows its description: the party   *)
(* whose comparative advantage is in the fixed market, and party_a first      *)
(* when neither is.                                                           *)

OpportunityAnalyzer(party_a, party_b) == [party_a |-> party_a, party_b |-> party_b]

\* the type of the party's comparative advantage against the other party
advantage_type(self, party) ==
    smaller_differential(comparatives_for_party(self, party)).type

find_fixed_rate_payer(self) ==
    IF advantage_type(self, self.party_a) = "fixed"
    THEN self.party_a
    ELSE IF advantage_type(self, self.party_b) = "fixed"
    THEN self.party_b
    ELSE self.party_a

-----------------------------------------------------------------------------
(* Inputs                                                                     *)

\* the scenario of test_default_values.py; C is a second object with A's
\* name and quotes
DefaultParties ==
    [party \in PartyIds |->
        IF party = "B" THEN Party(b_fixed, b_float_delta)
                       ELSE Party(a_fixed, a_float_delta)]

SmallParties ==
    {[party \in PartyIds |->
         IF party = "B" THEN Party(fb, lb) ELSE Party(fa, la)] :
       fa \in 0..MaxQuote, la \in 0..MaxQuote,
       fb \in 0..MaxQuote, lb \in 0..MaxQuote}

PartyScenarios == SmallParties \cup {DefaultParties}

\* the swap's negotiated rates <<fixed rate, floating delta>>
SwapQuotes == {<<swap_fixed_rate, swap_floating_rate>>, <<2, -1>>}

SwapScenarios ==
    {InterestRateSwap(q[1], q[2], fixed_rate_payer, floating_rate_payer) :
       q \in SwapQuotes, fixed_rate_payer \in PartyIds, floating_rate_payer \in PartyIds}

\* the constructor calls: (A, B, swap), (A, A, swap) and calls with an
\* argument left out
ArgScenarios ==
    {[party_a |-> pa, party_b |-> pb, interest_rate_swap |-> sw] :
       pa \in {"A", None}, pb \in {"A", "B", None}, sw \in {"swap", None}}

NoCall == [op |-> "none", party |-> None, out |-> Return(OtherValue)]

Call(op, party, out) == [op |-> op, party |-> party, out |-> out]

NoOperands == [op |-> "none", self |-> OtherValue, other |-> OtherValue]

EngineInit ==
    /\ parties \in PartyScenarios
    /\ swap \in SwapScenarios
    /\ args \in ArgScenarios
    /\ analyzer = NoAnalyzer
    /\ result = NoCall
    /\ analyze_calls = 0
    /\ first_summary = NoCall.out

Init ==
    /\ EngineInit
    /\ operands = NoOperands
    /\ rate_result = Return(OtherValue)

-----------------------------------------------------------------------------
(* Calls on the analyzer                                                      *)

\* a method call without a party argument
Method(op, r) ==
    /\ analyzer' = r.self
    /\ result' = Call(op, None, r.out)
    /\ UNCHANGED <<parties, swap, args, operands, rate_result>>

\* a method call with a party argument
PartyMethod(op, party, r) ==
    /\ analyzer' = r.self
    /\ result' = Call(op, party, r.out)
    /\ UNCHANGED <<parties, swap, args, analyze_calls, first_summary,
                   operands, rate_result>>

\* reading a cached_property: the instance after the read and the map read
Read(s1, attribute) == [self |-> s1, out |-> Return(s1[attribute].val)]

Construct ==
    /\ ~analyzer.exists
    /\ result.op # "__init__"
    /\ Method("__init__",
              Analyzer_init(args.party_a, args.party_b, args.interest_rate_swap))
    /\ UNCHANGED <<analyze_calls, first_summary>>

Analyze ==
    /\ analyzer.exists
    /\ analyze_calls < MaxCalls
    /\ Method("analyze", analyze(analyzer))
    /\ analyze_calls' = analyze_calls + 1
    /\ first_summary' = IF analyze_calls = 0 THEN result'.out ELSE first_summary

CalculateTotalArbitrage ==
    /\ analyzer.exists
    /\ UNCHANGED <<analyze_calls, first_summary>>
    /\ Method("calculate_total_arbitrage_available",
              calculate_total_arbitrage_available(analyzer))

ReadComparatives ==
    /\ analyzer.exists
    /\ UNCHANGED <<analyze_calls, first_summary>>
    /\ Method("comparatives", Read(comparatives(analyzer), "comparatives"))

ReadComparativeAdvantages ==
    /\ analyzer.exists
    /\ UNCHANGED <<analyze_calls, first_summary>>
    /\ Method("comparative_advantages",
              Read(comparative_advantages(analyzer), "comparative_advantages"))

ReadComparativeDisadvantages ==
    /\ analyzer.exists
    /\ UNCHANGED <<analyze_calls, first_summary>>
    /\ Method("comparative_disadvantages",
              Read(comparative_disadvantages(analyzer), "comparative_disadvantages"))

ComparativesForParty(party) ==
    /\ analyzer.exists
    /\ PartyMethod("comparatives_for_party", party,
                   [self |-> analyzer, out |-> Return(comparatives_for_party(analyzer, party))])

DetermineComparativeAdvantage(party) ==
    /\ analyzer.exists
    /\ PartyMethod("determine_comparative_advantage_for_party", party,
                   determine_comparative_advantage_for_party(analyzer, party))

DetermineComparativeDisadvantage(party) ==
    /\ analyzer.exists
    /\ PartyMethod("determine_comparative_disadvantage_for_party", party,
                   determine_comparative_disadvantage_for_party(analyzer, party))

GetNetBenefit(party) ==
    /\ analyzer.exists
    /\ PartyMethod("get_net_benefit", party, get_net_benefit(analyzer, party))

CalculateTotalCost(party) ==
    /\ analyzer.exists
    /\ PartyMethod("_calculate_total_cost", party, calculate_total_cost(analyzer, party))

CalculateMarketImprovement(party) ==
    /\ analyzer.exists
    /\ PartyMethod("_calculate_market_improvement", party,
                   calculate_market_improvement(analyzer, party))

\* a call on the swap
SwapMethod(op, party, position) ==
    /\ result' = Call(op, party, Return(position))
    /\ UNCHANGED <<parties, swap, args, analyzer, analyze_calls, first_summary,
                   operands, rate_result>>

GetPayingPosition(party) ==
    SwapMethod("get_paying_position_for_party", party,
               get_paying_position_for_party(party))

GetReceivingPosition(party) ==
    SwapMethod("get_receiving_position_for_party", party,
               get_receiving_position_for_party(party))

\* the advisor's recommendation for the two parties at hand
FindFixedRatePayer ==
    /\ args.party_a # None
    /\ args.party_b # None
    /\ result' = Call("find_fixed_rate_payer", None,
                      Return(find_fixed_rate_payer(
                                 OpportunityAnalyzer(args.party_a, args.party_b))))
    /\ UNCHANGED <<parties, swap, args, analyzer, analyze_calls, first_summary,
                   operands, rate_result>>

Next ==
    \/ Construct
    \/ Analyze
    \/ CalculateTotalArbitrage
    \/ ReadComparatives
    \/ ReadComparativeAdvantages
    \/ ReadComparativeDisadvantages
    \/ \E party \in PartyIds : ComparativesForParty(party)
    \/ \E party \in PartyIds : DetermineComparativeAdvantage(party)
    \/ \E party \in PartyIds : DetermineComparativeDisadvantage(party)
    \/ \E party \in PartyIds : GetNetBenefit(party)
    \/ \E party \in PartyIds : CalculateTotalCost(party)
    \/ \E party \in PartyIds : CalculateMarketImprovement(party)
    \/ FindFixedRatePayer
    \/ \E party \in PartyIds : GetPayingPosition(party)
    \/ \E party \in PartyIds : GetReceivingPosition(party)

Spec == Init /\ [][Next]_vars

-----------------------------------------------------------------------------
(* Calls of the InterestRate operators on drawn operands                      *)

RateValues == -MaxRate..MaxRate

Rates == {InterestRate(rate, rate_type) :
            rate \in RateValues, rate_type \in {"fixed", "floating"}}

Operands == Rates \cup {Num(n) : n \in RateValues} \cup {OtherValue}

RateInit ==
    /\ parties = DefaultParties
    /\ swap = InterestRateSwap(swap_fixed_rate, swap_floating_rate, "B", "A")
    /\ args = [party_a |-> "A", party_b |-> "B", interest_rate_swap |-> "swap"]
    /\ analyzer = NoAnalyzer
    /\ result = NoCall
    /\ analyze_calls = 0
    /\ first_summary = NoCall.out
    /\ operands = NoOperands
    /\ rate_result = Return(OtherValue)

engine_vars == <<parties, swap, args, analyzer, result, analyze_calls, first_summary>>

\* the operands of a call: self <op> other
OperatorCall(op, self, other) == [op |-> op, self |-> self, other |-> other]

RateAdd ==
    \E self \in Rates, other \in Operands :
        /\ operands' = OperatorCall("__add__", self, other)
        /\ rate_result' = InterestRate_add(self, other)
        /\ UNCHANGED engine_vars

RateSub ==
    \E self \in Rates, other \in Operands :
        /\ operands' = OperatorCall("__sub__", self, other)
        /\ rate_result' = InterestRate_sub(self, other)
        /\ UNCHANGED engine_vars

RateLt ==
    \E self \in Rates, other \in Operands :
        /\ operands' = OperatorCall("__lt__", self, other)
        /\ rate_result' = InterestRate_lt(self, other)
        /\ UNCHANGED engine_vars

RateLe ==
    \E self \in Rates, other \in Operands :
        /\ operands' = OperatorCall("__le__", self, other)
        /\ rate_result' = InterestRate_le(self, other)
        /\ UNCHANGED engine_vars

RateEq ==
    \E self \in Rates, other \in Operands :
        /\ operands' = OperatorCall("__eq__", self, other)
        /\ rate_result' = InterestRate_eq(self, other)
        /\ UNCHANGED engine_vars

RateNe ==
    \E self \in Rates, other \in Operands :
        /\ operands' = OperatorCall("__ne__", self, other)
        /\ rate_result' = InterestRate_ne(self, other)
        /\ UNCHANGED engine_vars

RateGt ==
    \E self \in Rates, other \in Operands :
        /\ operands' = OperatorCall("__gt__", self, other)
        /\ rate_result' = InterestRate_gt(self, other)
        /\ UNCHANGED engine_vars

RateGe ==
    \E self \in Rates, other \in Operands :
        /\ operands' = OperatorCall("__ge__", self, other)
        /\ rate_result' = InterestRate_ge(self, other)
        /\ UNCHANGED engine_vars

RateNext ==
    \/ RateAdd
    \/ RateSub
    \/ RateLt
    \/ RateLe
    \/ RateEq
    \/ RateNe
    \/ RateGt
    \/ RateGe

SpecRate == RateInit /\ [][RateNext]_vars

-----------------------------------------------------------------------------
(* Vocabulary of the properties                                               *)

\* the analyzer was built from two distinct parties
DistinctParties == analyzer.exists /\ analyzer.party_a # analyzer.party_b

\* the swap's fixed-rate payer and floating-rate payer are the analyzer's two parties
SwapBetweenParties ==
    /\ swap.fixed_rate_payer # swap.floating_rate_payer
    /\ {swap.fixed_rate_payer, swap.floating_rate_payer} = PartyKeys(analyzer)

\* the shipped defaults, analyzed as (Party A, Party B)
DefaultScenario ==
    /\ parties = DefaultParties
    /\ analyzer.exists
    /\ analyzer.party_a = "A"
    /\ analyzer.party_b = "B"

\* the other of the analyzer's two parties
Counterparty(party) ==
    IF party = analyzer.party_a THEN analyzer.party_b ELSE analyzer.party_a

\* the party's fixed quote minus its counterparty's
FixedDifferential(party) ==
    parties[party].fixed_rate.rate - parties[Counterparty(party)].fixed_rate.rate

\* the party's floating spread minus its counterparty's
FloatingDifferential(party) ==
    parties[party].floating_rate_delta.rate
        - parties[Counterparty(party)].floating_rate_delta.rate

\* the last call was op(party) on a party of the analyzer
CalledOnParty(op) ==
    /\ analyzer.exists
    /\ result.op = op
    /\ result.party \in PartyKeys(analyzer)

-----------------------------------------------------------------------------
(* C1 *)

\* C1: for an analyzer built from two distinct parties and a swap whose two
\* payers are those parties, analyze() returns a SwapSummary with the total
\* arbitrage, the swap's two rates and one analysis per party.
AnalyzeReturnsSummary ==
    (result.op = "analyze" /\ DistinctParties /\ SwapBetweenParties)
        => /\ result.out.status = "ok"
           /\ DOMAIN result.out.val =
                  {"total_arbitrage", "fixed_rate", "floating_rate",
                   "party_a_analysis", "party_b_analysis"}

-----------------------------------------------------------------------------
(* C2 *)

\* get_net_benefit(party) was called for a party of the swap that is one of
\* the analyzer's two parties
NetBenefitCase ==
    /\ CalledOnParty("get_net_benefit")
    /\ result.party \in {swap.fixed_rate_payer, swap.floating_rate_payer}

\* the party's market rate in its comparative-advantage market
MarketRate(party) ==
    Party_get_rate(party, analyzer.comparative_advantages.val[party].type)

\* the rate the party receives from the swap
ReceivedRate(party) ==
    Swap_get_rate(get_receiving_position_for_party(party))

\* C2 as stated: the net benefit is the rate received from the swap minus the
\* party's market rate in its comparative-advantage market.
NetBenefitIsSwapMinusMarket ==
    NetBenefitCase
        => /\ result.out.status = "ok"
           /\ result.out.val.rate =
                  ReceivedRate(result.party).rate - MarketRate(result.party).rate

\* C2 amended: the net benefit is the party's market rate in its
\* comparative-advantage market minus the rate received from the swap, an
\* InterestRate that is fixed when the two rates are of one kind and floating
\* otherwise.
NetBenefitIsMarketMinusSwap ==
    NetBenefitCase
        => /\ result.out.status = "ok"
           /\ result.out.val.tag = "InterestRate"
           /\ result.out.val.rate =
                  MarketRate(result.party).rate - ReceivedRate(result.party).rate
           /\ result.out.val.rate_type =
                  IF MarketRate(result.party).rate_type
                         = ReceivedRate(result.party).rate_type
                  THEN "fixed" ELSE "floating"

\* Party A of the defaults, floating-rate payer of the default swap: it borrows
\* at S+75 and receives 9.60%
NetBenefitWitness ==
    /\ NetBenefitCase
    /\ DefaultScenario
    /\ swap = InterestRateSwap(swap_fixed_rate, swap_floating_rate, "B", "A")
    /\ result.party = "A"
    /\ result.out = Return(InterestRate(-885, "floating"))

-----------------------------------------------------------------------------
(* C3 *)

\* C3 as stated: in the shipped-defaults scenario the total arbitrage is
\* 130 basis points.
DefaultTotalArbitrageIs130 ==
    (DefaultScenario /\ result.op = "calculate_total_arbitrage_available")
        => result.out = Return(Num(130))

\* C3 amended: in the shipped-defaults scenario the total arbitrage is -30
\* basis points, A's floating advantage rate +50 plus B's fixed advantage
\* rate -80.
DefaultTotalArbitrageIsMinus30 ==
    (DefaultScenario /\ result.op = "calculate_total_arbitrage_available")
        => /\ result.out = Return(Num(-30))
           /\ analyzer.comparative_advantages.val["A"] = [type |-> "floating", rate |-> 50]
           /\ analyzer.comparative_advantages.val["B"] = [type |-> "fixed", rate |-> -80]

DefaultTotalArbitrageWitness ==
    /\ DefaultScenario
    /\ result.op = "calculate_total_arbitrage_available"
    /\ result.out.val.rate = 50 + (-80)

-----------------------------------------------------------------------------
(* C4 *)

\* C4: in the shipped-defaults scenario the comparatives of A are
\* {fixed: +80, floating: +50} and A's advantage is floating; those of B are
\* {fixed: -80, floating: -50} and B's advantage is fixed.
DefaultComparatives ==
    DefaultScenario
        => /\ (result.op = "comparatives_for_party" /\ result.party = "A")
                  => result.out = Return([fixed |-> 80, floating |-> 50])
           /\ (result.op = "comparatives_for_party" /\ result.party = "B")
                  => result.out = Return([fixed |-> -80, floating |-> -50])
           /\ (result.op = "determine_comparative_advantage_for_party"
                   /\ result.party = "A")
                  => /\ result.out.status = "ok"
                     /\ result.out.val.type = "floating"
           /\ (result.op = "determine_comparative_advantage_for_party"
                   /\ result.party = "B")
                  => /\ result.out.status = "ok"
                     /\ result.out.val.type = "fixed"

DefaultComparativesWitness ==
    /\ DefaultScenario
    /\ result.op = "determine_comparative_advantage_for_party"
    /\ result.party = "B"
    /\ result.out.val = [type |-> "fixed", rate |-> -80]
    /\ analyzer.comparatives.val["A"] = [fixed |-> 80, floating |-> 50]

-----------------------------------------------------------------------------
(* C5 *)

\* C5: for every party of the analyzer the comparative advantage is the
\* strictly smaller of its fixed and floating differentials (type = that
\* market, rate = that differential), the comparative disadvantage the
\* strictly larger one, and both are type "none", rate 0 when the two
\* differentials are equal.
AdvantageIsSmallerDifferential ==
    /\ CalledOnParty("determine_comparative_advantage_for_party")
           => /\ result.out.status = "ok"
              /\ FixedDifferential(result.party) < FloatingDifferential(result.party)
                     => result.out.val =
                            [type |-> "fixed", rate |-> FixedDifferential(result.party)]
              /\ FloatingDifferential(result.party) < FixedDifferential(result.party)
                     => result.out.val =
                            [type |-> "floating", rate |-> FloatingDifferential(result.party)]
              /\ FixedDifferential(result.party) = FloatingDifferential(result.party)
                     => result.out.val = [type |-> "none", rate |-> 0]
    /\ CalledOnParty("determine_comparative_disadvantage_for_party")
           => /\ result.out.status = "ok"
              /\ FixedDifferential(result.party) > FloatingDifferential(result.party)
                     => result.out.val =
                            [type |-> "fixed", rate |-> FixedDifferential(result.party)]
              /\ FloatingDifferential(result.party) > FixedDifferential(result.party)
                     => result.out.val =
                            [type |-> "floating", rate |-> FloatingDifferential(result.party)]
              /\ FixedDifferential(result.party) = FloatingDifferential(result.party)
                     => result.out.val = [type |-> "none", rate |-> 0]

\* a tie of two nonzero differentials
AdvantageTieWitness ==
    /\ CalledOnParty("determine_comparative_advantage_for_party")
    /\ DistinctParties
    /\ FixedDifferential(result.party) = 1
    /\ FloatingDifferential(result.party) = 1
    /\ result.out.val = [type |-> "none", rate |-> 0]

-----------------------------------------------------------------------------
(* C6 *)

\* both maps have been computed and cached
AdvantagesAndDisadvantagesCached ==
    /\ analyzer.exists
    /\ analyzer.comparative_advantages.cached
    /\ analyzer.comparative_disadvantages.cached

\* C6: a party's comparative advantage and disadvantage are never both
\* "fixed" and never both "floating"; their types are equal only when the two
\* differentials are equal, and then both are "none".
AdvantageAndDisadvantageDiffer ==
    AdvantagesAndDisadvantagesCached
        => \A party \in PartyKeys(analyzer) :
               /\ ~ /\ analyzer.comparative_advantages.val[party].type = "fixed"
                    /\ analyzer.comparative_disadvantages.val[party].type = "fixed"
               /\ ~ /\ analyzer.comparative_advantages.val[party].type = "floating"
                    /\ analyzer.comparative_disadvantages.val[party].type = "floating"
               /\ (analyzer.comparative_advantages.val[party].type
                       = analyzer.comparative_disadvantages.val[party].type)
                      => FixedDifferential(party) = FloatingDifferential(party)
               /\ FixedDifferential(party) = FloatingDifferential(party)
                      => /\ analyzer.comparative_advantages.val[party].type = "none"
                         /\ analyzer.comparative_disadvantages.val[party].type = "none"

AdvantageAndDisadvantageWitness ==
    /\ AdvantagesAndDisadvantagesCached
    /\ DistinctParties
    /\ analyzer.comparative_advantages.val["A"].type = "fixed"
    /\ analyzer.comparative_disadvantages.val["A"].type = "floating"

-----------------------------------------------------------------------------
(* C7 *)

\* the analyzer built from the same inputs with the two parties exchanged
ExchangedAnalyzer ==
    NewAnalyzer(analyzer.party_b, analyzer.party_a, analyzer.interest_rate_swap)

\* C7: the total arbitrage is the sum of the two parties' comparative
\* advantage rates, and the analyzer built as (B, A, swap) returns the same
\* total as the one built as (A, B, swap).
TotalArbitrageIsSymmetricSum ==
    (analyzer.exists /\ result.op = "calculate_total_arbitrage_available")
        => /\ result.out.status = "ok"
           /\ result.out.val.rate =
                  analyzer.comparative_advantages.val[analyzer.party_a].rate
                      + analyzer.comparative_advantages.val[analyzer.party_b].rate
           /\ result.out = calculate_total_arbitrage_available(ExchangedAnalyzer).out

\* the two advantage rates differ, so each party's rate counts
TotalArbitrageWitness ==
    /\ analyzer.exists
    /\ DistinctParties
    /\ result.op = "calculate_total_arbitrage_available"
    /\ analyzer.comparative_advantages.val["A"].rate = 0
    /\ analyzer.comparative_advantages.val["B"].rate = -1
    /\ result.out.val.rate = -1

-----------------------------------------------------------------------------
(* C8 *)

ComparisonOperators == {"__lt__", "__le__", "__eq__", "__ne__", "__gt__", "__ge__"}

\* the comparison of two numbers that the operator stands for
NumericComparison(op, x, y) ==
    CASE op = "__lt__" -> x < y
      [] op = "__le__" -> x <= y
      [] op = "__eq__" -> x = y
      [] op = "__ne__" -> x # y
      [] op = "__gt__" -> x > y
      [] op = "__ge__" -> x >= y

\* C8: each of the six comparison operators raises ValueError on two
\* InterestRates of different kinds and returns the comparison of the numeric
\* values on two rates of one kind or on a rate and a plain number.
ComparisonAcrossKindsRaises ==
    operands.op \in ComparisonOperators
        => /\ (operands.other.tag = "InterestRate"
                   /\ operands.self.rate_type # operands.other.rate_type)
                  => rate_result.status = "ValueError"
           /\ (\/ operands.other.tag = "num"
               \/ /\ operands.other.tag = "InterestRate"
                  /\ operands.self.rate_type = operands.other.rate_type)
                  => rate_result =
                         Return(Bool(NumericComparison(operands.op,
                                                       operands.self.rate,
                                                       operands.other.rate)))

\* == on a fixed and a floating rate of equal value
ComparisonAcrossKindsWitness ==
    /\ operands.op = "__eq__"
    /\ operands.self = InterestRate(0, "fixed")
    /\ operands.other = InterestRate(0, "floating")
    /\ rate_result.status = "ValueError"

-----------------------------------------------------------------------------
(* C9 *)

\* C9: a - b has value a.value - b.value, kind fixed when the kinds of a and b
\* match and floating when they differ; a - a is 0 of kind fixed; subtracting
\* a plain number keeps the kind of a.
SubtractionKinds ==
    operands.op = "__sub__"
        => /\ operands.other.tag = "InterestRate"
                  => rate_result =
                         Return(InterestRate(
                             operands.self.rate - operands.other.rate,
                             IF operands.self.rate_type = operands.other.rate_type
                             THEN "fixed" ELSE "floating"))
           /\ operands.other = operands.self
                  => rate_result = Return(InterestRate(0, "fixed"))
           /\ operands.other.tag = "num"
                  => rate_result =
                         Return(InterestRate(operands.self.rate - operands.other.rate,
                                             operands.self.rate_type))

\* a floating rate minus itself
SubtractionWitness ==
    /\ operands.op = "__sub__"
    /\ operands.self = InterestRate(1, "floating")
    /\ operands.other = operands.self
    /\ rate_result = Return(InterestRate(0, "fixed"))

-----------------------------------------------------------------------------
(* C10 *)

\* the eagerly computed analyzer of swaps.py built from the same inputs
EagerAnalyzer ==
    Eager_init(analyzer.party_a, analyzer.party_b, analyzer.interest_rate_swap)

\* a freshly built analyzer of analyzer.py with nothing cached
FreshAnalyzer ==
    NewAnalyzer(analyzer.party_a, analyzer.party_b, analyzer.interest_rate_swap)

\* C10: after any sequence of analyze() calls and reads of the cached maps,
\* every analyze() call has the outcome of the first, every read returns the
\* cached map, and each cached map equals both its recomputation on a fresh
\* analyzer and the map of the eagerly computed analyzer.
CachedAnalyzerAgrees ==
    analyzer.exists
        => /\ result.op = "analyze" => result.out = first_summary
           /\ analyzer.comparatives.cached
                  => /\ analyzer.comparatives.val = EagerAnalyzer.comparatives
                     /\ analyzer.comparatives.val
                            = comparatives(FreshAnalyzer).comparatives.val
           /\ analyzer.comparative_advantages.cached
                  => /\ analyzer.comparative_advantages.val
                            = EagerAnalyzer.comparative_advantages
                     /\ analyzer.comparative_advantages.val
                            = comparative_advantages(FreshAnalyzer).comparative_advantages.val
           /\ analyzer.comparative_disadvantages.cached
                  => /\ analyzer.comparative_disadvantages.val
                            = EagerAnalyzer.comparative_disadvantages
                     /\ analyzer.comparative_disadvantages.val
                            = comparative_disadvantages(FreshAnalyzer).comparative_disadvantages.val
           /\ result.op = "comparatives"
                  => result.out = Return(EagerAnalyzer.comparatives)
           /\ result.op = "comparative_advantages"
                  => result.out = Return(EagerAnalyzer.comparative_advantages)
           /\ result.op = "comparative_disadvantages"
                  => result.out = Return(EagerAnalyzer.comparative_disadvantages)

\* a second analyze() call, with the three maps cached and an advantage to find
CachedAnalyzerWitness ==
    /\ DistinctParties
    /\ analyze_calls = 2
    /\ result.op = "analyze"
    /\ analyzer.comparatives.cached
    /\ analyzer.comparative_advantages.cached
    /\ analyzer.comparative_disadvantages.cached
    /\ analyzer.comparative_advantages.val["A"].type = "floating"

-----------------------------------------------------------------------------
(* C11 *)

\* one of the three constructor arguments is absent
ArgumentAbsent ==
    \/ args.party_a = None
    \/ args.party_b = None
    \/ args.interest_rate_swap = None

\* C11: constructing the analyzer raises ValueError when party_a, party_b or
\* the swap is absent, and no instance comes to exist; when all three are
\* given it succeeds and the instance holds the three inputs unchanged.
ConstructionValidatesInputs ==
    /\ result.op = "__init__"
           => /\ ArgumentAbsent
                     => /\ result.out.status = "ValueError"
                        /\ ~analyzer.exists
              /\ ~ArgumentAbsent
                     => /\ result.out.status = "ok"
                        /\ analyzer.exists
    /\ ArgumentAbsent => ~analyzer.exists
    /\ analyzer.exists
           => /\ analyzer.party_a = args.party_a
              /\ analyzer.party_b = args.party_b
              /\ analyzer.interest_rate_swap = args.interest_rate_swap

\* the constructor called with both parties and no swap
ConstructionWitness ==
    /\ result.op = "__init__"
    /\ args.party_a = "A"
    /\ args.party_b = "B"
    /\ args.interest_rate_swap = None
    /\ result.out.status = "ValueError"
    /\ ~analyzer.exists

-----------------------------------------------------------------------------
(* C12 *)

\* the other of the two parties handed to the advisor
AdvisedCounterparty(party) ==
    IF party = args.party_a THEN args.party_b ELSE args.party_a

\* the party's fixed differential against the other advised party is the
\* smaller of its two differentials
CheaperInFixed(party) ==
    parties[party].fixed_rate.rate
          - parties[AdvisedCounterparty(party)].fixed_rate.rate
      < parties[party].floating_rate_delta.rate
          - parties[AdvisedCounterparty(party)].floating_rate_delta.rate

-----------------------------------------------------------------------------
(* C13 *)

\* the swap rate of the party's paying position
PaidRate(party) ==
    IF party = swap.fixed_rate_payer THEN swap.fixed_rate.rate
                                     ELSE swap.floating_rate_delta.rate

\* the party's market rate in its comparative-disadvantage market
DisadvantageMarketRate(party) ==
    IF FixedDifferential(party) > FloatingDifferential(party)
    THEN parties[party].fixed_rate.rate
    ELSE parties[party].floating_rate_delta.rate

\* the party's net benefit: market rate minus received swap rate
NetBenefitRate(party) == MarketRate(party).rate - ReceivedRate(party).rate

\* C13: for every party of the swap, _calculate_total_cost returns the plain
\* number paying rate + net benefit, and _calculate_market_improvement the
\* plain number disadvantage-market rate - total cost.
TotalCostAndImprovementAreNumbers ==
    /\ (CalledOnParty("_calculate_total_cost") /\ SwapBetweenParties)
           => /\ result.out.status = "ok"
              /\ result.out.val =
                     Num(PaidRate(result.party) + NetBenefitRate(result.party))
    /\ (CalledOnParty("_calculate_market_improvement") /\ SwapBetweenParties)
           => /\ result.out.status = "ok"
              /\ result.out.val =
                     Num(DisadvantageMarketRate(result.party)
                           - (PaidRate(result.party) + NetBenefitRate(result.party)))

-----------------------------------------------------------------------------
(* C14 *)

\* the party is neither payer, yet has the quotes of one of them
TwinOfPayer(party) ==
    /\ party \notin {swap.fixed_rate_payer, swap.floating_rate_payer}
    /\ \E payer \in {swap.fixed_rate_payer, swap.floating_rate_payer} :
           parties[payer] = parties[party]

\* C14: the receiving position is "floating" for the fixed-rate payer, else
\* "fixed" for the floating-rate payer, else none; the paying position is
\* "fixed" for the fixed-rate payer and "floating" for every other party; a
\* party that only shares a payer's quotes is not a payer.
PositionsFollowPayers ==
    /\ result.op = "get_receiving_position_for_party"
           => /\ result.out.status = "ok"
              /\ result.party = swap.fixed_rate_payer
                     => result.out.val = "floating"
              /\ (result.party # swap.fixed_rate_payer
                    /\ result.party = swap.floating_rate_payer)
                     => result.out.val = "fixed"
              /\ result.party \notin {swap.fixed_rate_payer, swap.floating_rate_payer}
                     => result.out.val = None
              /\ TwinOfPayer(result.party) => result.out.val = None
    /\ result.op = "get_paying_position_for_party"
           => /\ result.out.status = "ok"
              /\ result.party = swap.fixed_rate_payer
                     => result.out.val = "fixed"
              /\ result.party # swap.fixed_rate_payer
                     => result.out.val = "floating"
              /\ TwinOfPayer(result.party) => result.out.val = "floating"

\* the receiving position asked for a second object with the fixed-rate
\* payer's quotes
PositionOfTwinWitness ==
    /\ result.op = "get_receiving_position_for_party"
    /\ result.party = "C"
    /\ swap.fixed_rate_payer = "A"
    /\ swap.floating_rate_payer = "B"
    /\ parties["C"] = parties["A"]
    /\ result.out.val = None

-----------------------------------------------------------------------------
(* C15 *)

\* get_net_benefit was called on a party that is not a key of the
\* analyzer's maps
NetBenefitOfStranger ==
    /\ analyzer.exists
    /\ result.op = "get_net_benefit"
    /\ result.party \notin PartyKeys(analyzer)

\* get_net_benefit was called on a party of the analyzer whose receiving
\* position is none or whose advantage type is "none"
NetBenefitOfUndefined ==
    /\ CalledOnParty("get_net_benefit")
    /\ \/ get_receiving_position_for_party(result.party) = None
       \/ analyzer.comparative_advantages.val[result.party].type = "none"

\* C15: a failure inside a derived computation reaches the caller with its
\* class unchanged (the KeyError of a map lookup stays a KeyError), and an
\* undefined receiving position or a "none" advantage type is never replaced
\* by a default (the call does not return a value).
FailuresPropagateUnchanged ==
    /\ NetBenefitOfStranger => result.out.status = "KeyError"
    /\ NetBenefitOfUndefined => result.out.status # "ok"

-----------------------------------------------------------------------------
(* C16 *)

\* party_a's fixed differential minus its floating differential
DifferentialGap ==
    FixedDifferential(analyzer.party_a) - FloatingDifferential(analyzer.party_a)

\* C16: the total arbitrage is never positive; it is minus the absolute value
\* of (party_a's fixed differential - party_a's floating differential), and
\* it is 0 exactly when the two differentials are equal.
TotalArbitrageIsNeverPositive ==
    (analyzer.exists /\ result.op = "calculate_total_arbitrage_available")
        => /\ result.out.status = "ok"
           /\ result.out.val = Num(-Magnitude(DifferentialGap))
           /\ result.out.val.rate <= 0
           /\ result.out.val.rate = 0
                  <=> FixedDifferential(analyzer.party_a)
                          = FloatingDifferential(analyzer.party_a)

\* party_a is dearer than party_b by the same amount in both markets, and
\* the total is 0
TotalArbitrageTieWitness ==
    /\ DistinctParties
    /\ result.op = "calculate_total_arbitrage_available"
    /\ FixedDifferential(analyzer.party_a) = 1
    /\ FloatingDifferential(analyzer.party_a) = 1
    /\ result.out.val = Num(0)

-----------------------------------------------------------------------------
(* C17 *)

\* the market other than the named one; "none" has no other
OppositeMarket(type) ==
    IF type = "fixed" THEN "floating"
    ELSE IF type = "floating" THEN "fixed"
    ELSE "none"

\* c and d are each other's negation
Negated(c, d) == c.fixed = -d.fixed /\ c.floating = -d.floating

\* C17: for two distinct parties each party's comparatives are the negation
\* of the other's, in the cached map and in the eagerly computed one; the two
\* advantages are in opposite markets or both "none", never both "fixed" nor
\* both "floating"; each party's advantage type is its counterparty's
\* disadvantage type.
ComparativesAreMirrored ==
    DistinctParties
        => /\ Negated(EagerAnalyzer.comparatives[analyzer.party_a],
                      EagerAnalyzer.comparatives[analyzer.party_b])
           /\ analyzer.comparatives.cached
                  => Negated(analyzer.comparatives.val[analyzer.party_a],
                             analyzer.comparatives.val[analyzer.party_b])
           /\ analyzer.comparative_advantages.cached
                  => /\ analyzer.comparative_advantages.val[analyzer.party_b].type
                          = OppositeMarket(
                                analyzer.comparative_advantages.val[analyzer.party_a].type)
                     /\ analyzer.comparative_advantages.val[analyzer.party_a].type
                            \in {"fixed", "floating"}
                          => analyzer.comparative_advantages.val[analyzer.party_a].type
                               # analyzer.comparative_advantages.val[analyzer.party_b].type
           /\ (analyzer.comparative_advantages.cached
                 /\ analyzer.comparative_disadvantages.cached)
                  => \A party \in PartyKeys(analyzer) :
                         analyzer.comparative_advantages.val[party].type
                           = analyzer.comparative_disadvantages.val[Counterparty(party)].type

\* party_a is cheaper in the fixed market, party_b in the floating one, and
\* both maps were read
MirroredAdvantagesWitness ==
    /\ DistinctParties
    /\ analyzer.comparatives.cached
    /\ analyzer.comparative_advantages.cached
    /\ analyzer.comparative_disadvantages.cached
    /\ analyzer.comparative_advantages.val[analyzer.party_a].type = "fixed"
    /\ analyzer.comparative_advantages.val[analyzer.party_b].type = "floating"
    /\ analyzer.comparative_disadvantages.val[analyzer.party_b].type = "fixed"

=============================================================================
